---- MODULE Spec2Model ----
(***************************************************************************)
(* Slack RAG bot (src/app.py): streaming update controller                 *)
(* (SlackStreamingCallbackHandler), turn orchestrator (handle_mention) and *)
(* the AWS Lambda entry point (handler).                                   *)
(*                                                                         *)
(* Time is time.time() in whole seconds since the module was imported.     *)
(* Strings are sequences of characters; an f-string or += is \o.           *)
(* The callbacks on_llm_new_token / on_llm_end are driven by the LLM call  *)
(* made inside conversational_chain.invoke (src/app.py:130): the driver    *)
(* delivers tokens one at a time on the calling thread, then the end-of-   *)
(* stream callback; an exception raised by a callback is logged and        *)
(* swallowed by the callback dispatcher, because the handler class         *)
(* (src/app.py:36) inherits raise_error = False from BaseCallbackHandler.  *)
(***************************************************************************)
EXTENDS Integers, Sequences, FiniteSets, TLC

\* ------------------------------------------------------------- bounds
MaxTime == 5
MaxTokens == 3
MaxRetries == 1
MaxLongTokens == 43
MaxLongFailures == 1
MaxTurnTokens == 2
MaxTextLen == 5

\* ---------------------------------------------------------- constants
CHAT_UPDATE_INTERVAL_SEC == 1

\* time.time() when the class body of SlackStreamingCallbackHandler ran
ImportTime == 0

\* the literal "\n\nTyping..." of the f-string and of the placeholder post
Marker == <<"\n", "\n", "Typing...">>

RetryHeader == "x-slack-retry-num"

Turns == {1, 2}

\* the tokens the LLM may stream: the empty first chunk, a one-character
\* and a two-character token
Tokens == {<< >>, <<"a">>, <<"b", "c">>}

LongToken == <<"a">>

\* the inbound app_mention events: a fresh mention, and a reply in its thread
Event(t) ==
  IF t = 1
    THEN [channel |-> "C", ts |-> "1.0",
          text |-> <<"<", "@", "U", ">", "h", "i">>]
    ELSE [channel |-> "C", ts |-> "2.0", thread_ts |-> "1.0",
          text |-> <<"<", "@", "U", ">", "y", "o">>]

Keys == {"0.5", "1.0", "2.0"}

\* the events a turn may be started by: its own ts, and no thread_ts or
\* the thread_ts of an older or of the first message
EventChoices(t) ==
  {[channel |-> "C", ts |-> Event(t).ts, text |-> Event(t).text]} \cup
  {[channel |-> "C", ts |-> Event(t).ts, thread_ts |-> r,
    text |-> Event(t).text] : r \in {"0.5", "1.0"}}

\* the token streamed in answer to a turn when two turns are told apart
TurnToken(t) == IF t = 1 THEN <<"a">> ELSE <<"b", "c">>

VARIABLES
  now,        \* the wall clock read by time.time()
  mode,       \* "socket" (SocketModeHandler) or "lambda" (handler)
  events,     \* the app_mention event of each turn
  query,      \* handle_mention's local `message`: the stripped event text
  id_ts,      \* handle_mention's local `id_ts`: the key of the history object
  deliveries, \* the Lambda invocations so far: [turn, retry, resp]
  pc,         \* position of each turn in handle_mention
  inst,       \* the instance __dict__ of each turn's callback handler
  created,    \* time at which the turn's callback handler was constructed
  arrived,    \* the tokens the LLM has delivered to the turn's handler
  ended,      \* the driver has signalled the end of the turn's stream
  shown,      \* the text the turn's Slack message currently displays
  lastCall,   \* the most recent chat_update call of the turn
  nPartial,   \* chat_update calls issued by on_llm_new_token
  nFinal,     \* chat_update calls issued by on_llm_end
  okPartialAt,\* time of the latest successful partial publish, -1 if none
  nOkPartial, \* chat_update calls of on_llm_new_token that returned
  lastTokenSent, \* the latest on_llm_new_token issued a chat_update
  loaded,     \* history.messages as read by the turn at invoke
  ai_message, \* the value returned by conversational_chain.invoke
  history     \* the transcript store, by conversation key

vars == <<now, mode, events, query, id_ts, deliveries, pc, inst, created,
          arrived, ended, shown, lastCall, nPartial, nFinal, okPartialAt,
          nOkPartial, lastTokenSent, loaded,
          ai_message, history>>

\* ------------------------------------------------------------ helpers
NoCall == [kind |-> "none", text |-> << >>, at |-> 0, ok |-> FALSE]

NoInstance == [a \in {} |-> 0]

\* the attributes defined at class scope (src/app.py:37-38)
ClassAttrs == [last_send_time |-> ImportTime, message |-> << >>]

\* mutant: an attribute the instance has not written yet is read from
\* another instance that has, as if writes went to the class
GetAttrShared(t, name) ==
  IF name \in DOMAIN inst[t] THEN inst[t][name]
  ELSE IF \E u \in DOMAIN inst : name \in DOMAIN inst[u]
    THEN inst[CHOOSE u \in DOMAIN inst : name \in DOMAIN inst[u]][name]
    ELSE ClassAttrs[name]

\* Python attribute lookup self.<name>: the instance __dict__ first, then
\* the class
GetAttr(t, name) ==
  IF name \in DOMAIN inst[t] THEN inst[t][name] ELSE ClassAttrs[name]

\* Python attribute assignment self.<name> = v: always on the instance
SetAttr(d, name, v) ==
  [a \in (DOMAIN d) \cup {name} |-> IF a = name THEN v ELSE d[a]]

RECURSIVE Concat(_)
Concat(toks) ==
  IF toks = << >> THEN << >> ELSE Head(toks) \o Concat(Tail(toks))

EndsWith(s, suf) ==
  /\ Len(suf) <= Len(s)
  /\ SubSeq(s, Len(s) - Len(suf) + 1, Len(s)) = suf

\* --------------------------------------- SlackStreamingCallbackHandler
\* __init__ (src/app.py:40-45)
NewHandler(channel, ts) ==
  [channel |-> channel, ts |-> ts,
   interval |-> CHAT_UPDATE_INTERVAL_SEC, update_count |-> 0]

\* mutant: the token is put in front of the accumulated text
AccumulateInFront(msg, token) == token \o msg

\* mutant: the token replaces the accumulated text
AccumulateReplace(msg, token) == token

\* self.message += token
Accumulate(msg, token) == msg \o token

\* mutant: the gate opens as soon as the interval has elapsed
ShouldSendAtInterval(at, last, iv) == at - last >= iv

\* now - self.last_send_time > self.interval
ShouldSend(at, last, iv) == at - last > iv

\* text=f"{self.message}\n\nTyping..."
PartialText(msg) == msg \o Marker

\* mutant: the interval falls back to the base when it is not doubled
NextIntervalReset(c, iv) ==
  IF c > 10 * iv THEN iv * 2 ELSE CHAT_UPDATE_INTERVAL_SEC

\* mutant: the doubling already happens at ten times the interval
NextIntervalEarly(c, iv) == IF c >= 10 * iv THEN iv * 2 ELSE iv

\* mutant: floor division, c // 10 > iv
NextIntervalFloorDiv(c, iv) == IF c \div 10 > iv THEN iv * 2 ELSE iv

\* if self.update_count / 10 > self.interval: self.interval = self.interval * 2
\* (true division: c / 10 > iv exactly when c > 10 * iv)
NextInterval(c, iv) == IF c > 10 * iv THEN iv * 2 ELSE iv

\* mutant: an empty text is replaced by the placeholder text
FinalTextOrPlaceholder(msg) == IF msg = << >> THEN Marker ELSE msg

\* text=self.message
FinalText(msg) == msg

\* mutant: the terminal publish is gated by the interval like a partial one
SendsFinalIfDue(at, last, iv) == at - last > iv

\* whether on_llm_end issues its chat_update: unconditionally
SendsFinal(at, last, iv) == TRUE

\* mutant: a token callback is still delivered after the end of the stream
StreamOpenOrEnded(p) == p \in {"streaming", "ended"}

\* the driver calls on_llm_new_token only while the LLM call is streaming
StreamOpen(p) == p = "streaming"

\* mutant: the exception of chat_update ends the LLM call
AbortOnCallbackError(p) == "failed"

\* where the turn stands after chat_update raised inside a callback: the
\* dispatcher swallows the exception and the stream goes on
AfterCallbackError(p) == p

\* mutant: the bookkeeping of lines 56-60 is done although the call raised
InstAfterRaiseCounted(appended, counted) == counted

\* the instance __dict__ left behind when chat_update raises at line 51:
\* the token is appended (line 48), lines 56-60 have not run
InstAfterRaise(appended, counted) == appended

\* on_llm_new_token(token) called at time `at`; `ok` is whether the
\* chat_update call, if issued, returns normally
OnLlmNewToken(t, token, at, ok) ==
  LET msg  == Accumulate(GetAttr(t, "message"), token)
      d1   == SetAttr(inst[t], "message", msg)
      last == GetAttr(t, "last_send_time")
      iv   == GetAttr(t, "interval")
      cnt  == GetAttr(t, "update_count") + 1
      d2   == SetAttr(d1, "last_send_time", at)
      d3   == SetAttr(d2, "update_count", cnt)
      d4   == SetAttr(d3, "interval", NextInterval(cnt, iv))
      send == ShouldSend(at, last, iv)
  IN
  /\ StreamOpen(pc[t])
  /\ arrived' = [arrived EXCEPT ![t] = Append(@, token)]
  /\ lastTokenSent' = [lastTokenSent EXCEPT ![t] = send]
  /\ IF send
       THEN /\ lastCall' = [lastCall EXCEPT ![t] =
                 [kind |-> "partial", text |-> PartialText(msg),
                  at |-> at, ok |-> ok]]
            /\ nPartial' = [nPartial EXCEPT ![t] = @ + 1]
            /\ IF ok
                 THEN /\ inst' = [inst EXCEPT ![t] = d4]
                      /\ shown' = [shown EXCEPT ![t] = PartialText(msg)]
                      /\ okPartialAt' = [okPartialAt EXCEPT ![t] = at]
                      /\ nOkPartial' = [nOkPartial EXCEPT ![t] = @ + 1]
                      /\ pc' = pc
                 ELSE /\ inst' = [inst EXCEPT ![t] = InstAfterRaise(d1, d4)]
                      /\ pc' = [pc EXCEPT ![t] = AfterCallbackError(@)]
                      /\ UNCHANGED <<shown, okPartialAt, nOkPartial>>
       ELSE /\ inst' = [inst EXCEPT ![t] = d1]
            /\ UNCHANGED <<lastCall, nPartial, shown, okPartialAt, nOkPartial, pc>>
  /\ UNCHANGED <<mode, events, query, id_ts, deliveries, created, ended, nFinal, loaded,
                 ai_message, history>>

\* on_llm_end (src/app.py:62-67), called at time `at`
OnLlmEnd(t, at, ok) ==
  LET msg == GetAttr(t, "message")
      send == SendsFinal(at, GetAttr(t, "last_send_time"),
                         GetAttr(t, "interval"))
  IN
  /\ pc[t] = "streaming"
  /\ ended' = [ended EXCEPT ![t] = TRUE]
  /\ pc' = [pc EXCEPT ![t] = "ended"]
  /\ IF send
       THEN /\ lastCall' = [lastCall EXCEPT ![t] =
                 [kind |-> "final", text |-> FinalText(msg),
                  at |-> at, ok |-> ok]]
            /\ nFinal' = [nFinal EXCEPT ![t] = @ + 1]
            /\ shown' = IF ok THEN [shown EXCEPT ![t] = FinalText(msg)]
                        ELSE shown
       ELSE UNCHANGED <<lastCall, nFinal, shown>>
  /\ UNCHANGED <<now, mode, events, query, id_ts, deliveries, inst, created, arrived, nPartial,
                 okPartialAt, nOkPartial, lastTokenSent, loaded, ai_message, history>>

\* ------------------------------------------------------ handle_mention
\* re.sub("<@.*>", "", text): the ends j of a match starting at i, where
\* "." matches any character but a newline
MatchEnds(s, i) ==
  IF i + 1 <= Len(s) /\ s[i] = "<" /\ s[i + 1] = "@"
    THEN {j \in (i + 2)..Len(s) :
            /\ s[j] = ">"
            /\ \A k \in (i + 2)..(j - 1) : s[k] # "\n"}
    ELSE {}

SetMax(S) == CHOOSE x \in S : \A y \in S : y <= x

\* the scan of re.sub from position i: the leftmost match, taken greedily,
\* is deleted and the scan resumes after it
RECURSIVE ReSubFrom(_, _)
ReSubFrom(s, i) ==
  IF i > Len(s) THEN << >>
  ELSE IF MatchEnds(s, i) # {}
    THEN ReSubFrom(s, SetMax(MatchEnds(s, i)) + 1)
    ELSE <<s[i]>> \o ReSubFrom(s, i + 1)

ReSub(s) == ReSubFrom(s, 1)

\* mutant: the key is always the event's own ts
KeyOfOwnTs(event) == event["ts"]

\* id_ts = event["ts"]; if "thread_ts" in event: id_ts = event["thread_ts"]
KeyOf(event) ==
  IF "thread_ts" \in DOMAIN event THEN event["thread_ts"] ELSE event["ts"]

\* result["ts"] of the placeholder posted by say() for the turn
MsgTs(t) == IF t = 1 THEN "m1" ELSE "m2"

\* what rephrase_chain (a history-aware retriever) returns for the text
\* piped into it by qa_chain | rephrase_chain
ChainOutput(answer) == [docs_for |-> answer]

\* lines 77-87: the event is parsed and say() posts the placeholder
HandleMentionStart(t) ==
  /\ pc[t] = "idle"
  /\ pc' = [pc EXCEPT ![t] = "posted"]
  /\ query' = [query EXCEPT ![t] = ReSub(events[t].text)]
  /\ id_ts' = [id_ts EXCEPT ![t] = KeyOf(events[t])]
  /\ shown' = [shown EXCEPT ![t] = Marker]
  /\ UNCHANGED <<now, mode, events, inst, created, arrived, ended, lastCall,
                 nPartial, nFinal, okPartialAt, nOkPartial, lastTokenSent, loaded,
                 ai_message, history>>

\* lines 89-124: history object, vector store, chains and the callback
\* handler are constructed; any of the constructors may raise
Setup(t, ok) ==
  /\ pc[t] = "posted"
  /\ IF ok
       THEN /\ pc' = [pc EXCEPT ![t] = "built"]
            /\ inst' = [inst EXCEPT ![t] =
                          NewHandler(events[t].channel, MsgTs(t))]
            /\ created' = [created EXCEPT ![t] = now]
       ELSE /\ pc' = [pc EXCEPT ![t] = "failed"]
            /\ UNCHANGED <<inst, created>>
  /\ UNCHANGED <<now, mode, events, query, id_ts, deliveries, arrived, ended, shown, lastCall,
                 nPartial, nFinal, okPartialAt, nOkPartial, lastTokenSent, loaded,
                 ai_message, history>>

\* lines 130-131: history.messages is read and the chain is invoked with
\* {"input": message, "chat_history": history.messages}
Invoke(t) ==
  /\ pc[t] = "built"
  /\ pc' = [pc EXCEPT ![t] = "streaming"]
  /\ loaded' = [loaded EXCEPT ![t] =
                  [input |-> query[t], chat_history |-> history[id_ts[t]]]]
  /\ UNCHANGED <<now, mode, events, query, id_ts, deliveries, inst, created, arrived, ended,
                 shown, lastCall, nPartial, nFinal, okPartialAt, nOkPartial,
                 lastTokenSent, ai_message, history>>

\* the LLM call raises while streaming: invoke raises, the turn ends
LlmError(t) ==
  /\ pc[t] = "streaming"
  /\ pc' = [pc EXCEPT ![t] = "failed"]
  /\ UNCHANGED <<now, mode, events, query, id_ts, deliveries, inst, created, arrived, ended,
                 shown, lastCall, nPartial, nFinal, okPartialAt, nOkPartial,
                 lastTokenSent, loaded, ai_message, history>>

\* the rest of conversational_chain.invoke after the LLM has finished:
\* the output parser and rephrase_chain, which may raise
InvokeReturn(t, ok) ==
  /\ pc[t] = "ended"
  /\ IF ok
       THEN /\ pc' = [pc EXCEPT ![t] = "invoked"]
            /\ ai_message' = [ai_message EXCEPT ![t] =
                                ChainOutput(GetAttr(t, "message"))]
       ELSE /\ pc' = [pc EXCEPT ![t] = "failed"]
            /\ UNCHANGED ai_message
  /\ UNCHANGED <<now, mode, events, query, id_ts, deliveries, inst, created, arrived, ended,
                 shown, lastCall, nPartial, nFinal, okPartialAt, nOkPartial,
                 lastTokenSent, loaded, history>>

\* mutant: the store keeps only the entry written last
AppendEntryOverwrite(h, e) == <<e>>

\* add_user_message / add_ai_message: the entry is pushed at the end of
\* the list stored under the key
AppendEntry(h, e) == Append(h, e)

\* line 134: history.add_user_message(message)
AddUserMessage(t) ==
  /\ pc[t] = "invoked"
  /\ pc' = [pc EXCEPT ![t] = "userAdded"]
  /\ history' = [history EXCEPT ![id_ts[t]] =
                   AppendEntry(@, <<"human", query[t]>>)]
  /\ UNCHANGED <<now, mode, events, query, id_ts, deliveries, inst, created, arrived, ended,
                 shown, lastCall, nPartial, nFinal, okPartialAt, nOkPartial,
                 lastTokenSent, loaded, ai_message>>

\* line 135: history.add_ai_message(ai_message)
AddAiMessage(t) ==
  /\ pc[t] = "userAdded"
  /\ pc' = [pc EXCEPT ![t] = "done"]
  /\ history' = [history EXCEPT ![id_ts[t]] =
                   AppendEntry(@, <<"ai", ai_message[t]>>)]
  /\ UNCHANGED <<now, mode, events, query, id_ts, deliveries, inst, created, arrived, ended,
                 shown, lastCall, nPartial, nFinal, okPartialAt, nOkPartial,
                 lastTokenSent, loaded, ai_message>>

\* ------------------------------------------------------------ handler
\* mutant: the retry header is not looked at
IsRetryNever(headers) == FALSE

\* if "x-slack-retry-num" in header: return 200
IsRetry(headers) == RetryHeader \in headers

Retries == {i \in 1..Len(deliveries) : deliveries[i].retry}

\* handler(event, context) (src/app.py:141-150) for a delivery of turn
\* t's event carrying the header names `headers`
Handler(t, headers) ==
  /\ mode = "lambda"
  /\ IF IsRetry(headers)
       THEN /\ Cardinality(Retries) < MaxRetries
            /\ deliveries' = Append(deliveries,
                 [turn |-> t, retry |-> RetryHeader \in headers,
                  resp |-> "200"])
            /\ UNCHANGED <<now, mode, events, query, id_ts, pc, inst, created, arrived, ended,
                           shown, lastCall, nPartial, nFinal, okPartialAt, nOkPartial,
                           lastTokenSent, loaded, ai_message, history>>
       ELSE /\ deliveries' = Append(deliveries,
                 [turn |-> t, retry |-> RetryHeader \in headers,
                  resp |-> "handled"])
            /\ HandleMentionStart(t)

\* SocketModeHandler(app, ...).start(): the event reaches handle_mention
\* directly
SocketDispatch(t) ==
  /\ mode = "socket"
  /\ HandleMentionStart(t)
  /\ UNCHANGED deliveries

\* ------------------------------------------------------- environment
\* the clock is read by on_llm_new_token only: it is let run while some
\* turn may still read it
ClockObserved(S) ==
  \E t \in S : pc[t] \in {"idle", "posted", "built", "streaming"}

Tick(S) ==
  /\ now < MaxTime
  /\ ClockObserved(S)
  /\ now' = now + 1
  /\ UNCHANGED <<mode, events, query, id_ts, deliveries, pc, inst, created, arrived, ended,
                 shown, lastCall, nPartial, nFinal, okPartialAt, nOkPartial,
                 lastTokenSent, loaded, ai_message, history>>

\* the LLM delivers one more token, one of `toks`, of an answer of at most
\* `max` tokens; the chat_update call, if issued, succeeds or raises as
\* `oks` allows
NewToken(t, toks, oks, max) ==
  \E token \in toks, ok \in oks :
    /\ Len(arrived[t]) < max
    /\ OnLlmNewToken(t, token, now, ok)
    /\ now' = now

StreamEnd(t, oks) == \E ok \in oks : OnLlmEnd(t, now, ok)

\* chat_update calls of on_llm_new_token that raised
FailedPartials(t) == nPartial[t] - GetAttr(t, "update_count")

\* a long answer: each token arrives either at once or just after the
\* current interval has run out
LongTokenStep(t) ==
  /\ pc[t] = "streaming"
  /\ Len(arrived[t]) < MaxLongTokens
  /\ \E d \in {0, GetAttr(t, "interval") + 1}, ok \in BOOLEAN :
       /\ ok \/ FailedPartials(t) < MaxLongFailures
       /\ OnLlmNewToken(t, LongToken, now + d, ok)
       /\ now' = now + d

NoLoad == [input |-> << >>, chat_history |-> << >>]

\* the state after import, before any event, in deployment mode m, for
\* the events ev that will arrive
InitWith(m, ev) ==
  /\ now = ImportTime
  /\ mode = m
  /\ events = ev
  /\ query = [t \in Turns |-> << >>]
  /\ id_ts = [t \in Turns |-> "none"]
  /\ deliveries = << >>
  /\ pc = [t \in Turns |-> "idle"]
  /\ inst = [t \in Turns |-> NoInstance]
  /\ created = [t \in Turns |-> -1]
  /\ arrived = [t \in Turns |-> << >>]
  /\ ended = [t \in Turns |-> FALSE]
  /\ shown = [t \in Turns |-> << >>]
  /\ lastCall = [t \in Turns |-> NoCall]
  /\ nPartial = [t \in Turns |-> 0]
  /\ nFinal = [t \in Turns |-> 0]
  /\ okPartialAt = [t \in Turns |-> -1]
  /\ nOkPartial = [t \in Turns |-> 0]
  /\ lastTokenSent = [t \in Turns |-> FALSE]
  /\ loaded = [t \in Turns |-> NoLoad]
  /\ ai_message = [t \in Turns |-> [docs_for |-> << >>]]
  /\ history = [k \in Keys |-> << >>]

InitMode(m) == InitWith(m, [t \in Turns |-> Event(t)])

\* the steps of a turn after its event has been dispatched
TurnStep(t, toks) ==
  \/ \E ok \in BOOLEAN : Setup(t, ok)
  \/ Invoke(t)
  \/ NewToken(t, toks, BOOLEAN, MaxTokens)
  \/ LlmError(t)
  \/ StreamEnd(t, BOOLEAN)
  \/ \E ok \in BOOLEAN : InvokeReturn(t, ok)
  \/ AddUserMessage(t)
  \/ AddAiMessage(t)

\* socket mode, one turn, arbitrary timing and tokens
Init == InitMode("socket")

Next ==
  \/ Tick({1})
  \/ SocketDispatch(1)
  \/ TurnStep(1, Tokens)

Spec == Init /\ [][Next]_vars

\* request-driven mode (AWS Lambda), one event and its redeliveries
InitLambda == InitMode("lambda")

NextLambda ==
  \/ Tick({1})
  \/ \E headers \in SUBSET {RetryHeader} : Handler(1, headers)
  \/ TurnStep(1, {LongToken})

SpecLambda == InitLambda /\ [][NextLambda]_vars

\* socket mode, one long answer
NextLong ==
  \/ SocketDispatch(1)
  \/ Setup(1, TRUE)
  \/ Invoke(1)
  \/ LongTokenStep(1)
  \/ StreamEnd(1, {TRUE})

SpecLong == Init /\ [][NextLong]_vars

\* socket mode, two events handled concurrently by the listener threads:
\* the turns, whatever threads the events belong to
InitTurns == \E ev \in [Turns -> UNION {EventChoices(t) : t \in Turns}] :
  /\ \A t \in Turns : ev[t] \in EventChoices(t)
  /\ InitWith("socket", ev)

NextTurns ==
  \E t \in Turns :
    \/ SocketDispatch(t)
    \/ Setup(t, TRUE)
    \/ Invoke(t)
    \/ NewToken(t, {TurnToken(t)}, {TRUE}, MaxTurnTokens)
    \/ StreamEnd(t, {TRUE})
    \/ \E ok \in BOOLEAN : InvokeReturn(t, ok)
    \/ AddUserMessage(t)
    \/ AddAiMessage(t)

SpecTurns == InitTurns /\ [][NextTurns]_vars

\* socket mode, the streaming sessions of two concurrent turns
NextSessions ==
  \/ Tick(Turns)
  \/ \E t \in Turns :
       \/ SocketDispatch(t)
       \/ Setup(t, TRUE)
       \/ Invoke(t)
       \/ NewToken(t, {TurnToken(t)}, {TRUE}, MaxTurnTokens)
       \/ StreamEnd(t, {TRUE})

SpecSessions == Init /\ [][NextSessions]_vars

\* socket mode, one turn without tokens, for any text of the event
TextChars == {"<", "@", ">", "x", "\n"}

Texts == UNION {[1..n -> TextChars] : n \in 0..MaxTextLen}

InitSub == \E txt \in Texts :
  InitWith("socket",
           [t \in Turns |-> [channel |-> "C", ts |-> Event(t).ts, text |-> txt]])

NextSub ==
  \/ SocketDispatch(1)
  \/ Setup(1, TRUE)
  \/ Invoke(1)
  \/ StreamEnd(1, {TRUE})
  \/ InvokeReturn(1, TRUE)
  \/ AddUserMessage(1)
  \/ AddAiMessage(1)

SpecSub == InitSub /\ [][NextSub]_vars

\* ============================================================ claims
HasSession(t) == "interval" \in DOMAIN inst[t]

\* C1: the text of the terminal publish made by on_llm_end is the
\* concatenation, in arrival order, of all tokens delivered to the session.
C1_FinalTextIsConcatenation ==
  \A t \in Turns :
    ended[t] => /\ lastCall[t].kind = "final"
                /\ lastCall[t].text = Concat(arrived[t])

C1_Witness ==
  \E t \in Turns :
    /\ ended[t]
    /\ Len(arrived[t]) = 3
    /\ arrived[t][1] # arrived[t][2]
    /\ Concat(arrived[t]) # << >>
    /\ nPartial[t] >= 1

\* C2: once the stream of a session has ended, exactly one terminal publish
\* has been made, its text is the accumulated text without the in-progress
\* marker, and before the end of the stream none has been made; this does
\* not depend on the partial publishes made before.
C2_ExactlyOneTerminalPublish ==
  \A t \in Turns :
    /\ ended[t] => /\ nFinal[t] = 1
                   /\ lastCall[t].kind = "final"
                   /\ lastCall[t].text = GetAttr(t, "message")
                   /\ ~EndsWith(lastCall[t].text, Marker)
    /\ ~ended[t] => nFinal[t] = 0

C2_Witness ==
  \E t \in Turns :
    /\ ended[t]
    /\ nPartial[t] >= 1
    /\ ~lastTokenSent[t]
    /\ lastCall[t].at - GetAttr(t, "last_send_time") <= GetAttr(t, "interval")

\* C3: the first partial publish of a session is made only when accumulated
\* text exists and more than the base interval has elapsed since the
\* session was created.
C3_FirstPublishAfterSessionInterval ==
  \A t \in Turns :
    (nPartial[t] = 1 /\ lastCall[t].kind = "partial") =>
      /\ lastCall[t].at - created[t] > CHAT_UPDATE_INTERVAL_SEC
      /\ lastCall[t].text # Marker

\* C4: once on_llm_end has published, no further chat_update is issued for
\* the session and the displayed text no longer changes: the terminal
\* publish is the last edit, every partial publish precedes it.
C4_TerminalPublishIsLast ==
  [][\A t \in Turns :
       nFinal[t] >= 1 => /\ nPartial'[t] = nPartial[t]
                         /\ nFinal'[t] = nFinal[t]
                         /\ lastCall'[t] = lastCall[t]
                         /\ shown'[t] = shown[t]]_vars

C4_Witness ==
  \E t \in Turns :
    /\ pc[t] = "done"
    /\ nFinal[t] = 1
    /\ nPartial[t] >= 2
    /\ lastCall[t].kind = "final"

\* C5: on_llm_new_token issues a partial publish exactly when now -
\* last_send_time > interval; the text is the accumulated text including
\* the new token followed by the marker; when the call succeeds
\* last_send_time becomes now, update_count grows by one, and the previous
\* successful partial publish lies more than the interval back; when no
\* publish is issued last_send_time, update_count and interval are unchanged.
C5_PartialPublishGate ==
  [][\A t \in Turns :
       arrived'[t] # arrived[t] =>
         LET last   == GetAttr(t, "last_send_time")
             iv     == GetAttr(t, "interval")
             cnt    == GetAttr(t, "update_count")
             token  == arrived'[t][Len(arrived'[t])]
             issued == nPartial'[t] = nPartial[t] + 1
         IN
         /\ nPartial'[t] \in {nPartial[t], nPartial[t] + 1}
         /\ issued <=> (now' - last > iv)
         /\ GetAttr(t, "message")' = GetAttr(t, "message") \o token
         /\ issued =>
              /\ lastCall'[t].kind = "partial"
              /\ lastCall'[t].at = now'
              /\ lastCall'[t].text = (GetAttr(t, "message") \o token) \o Marker
         /\ (issued /\ lastCall'[t].ok) =>
              /\ GetAttr(t, "last_send_time")' = now'
              /\ GetAttr(t, "update_count")' = cnt + 1
              /\ shown'[t] = lastCall'[t].text
              /\ okPartialAt[t] >= 0 => now' - okPartialAt[t] > iv
         /\ ~issued =>
              /\ GetAttr(t, "last_send_time")' = last
              /\ GetAttr(t, "update_count")' = cnt
              /\ GetAttr(t, "interval")' = iv
              /\ shown'[t] = shown[t]
              /\ lastCall'[t] = lastCall[t]]_vars

C5_Witness ==
  \E t \in Turns :
    /\ HasSession(t)
    /\ GetAttr(t, "update_count") = 2
    /\ nPartial[t] = 2
    /\ Len(arrived[t]) = 3

\* C6: the publish interval of a session never decreases, whatever the
\* step: a token with or without publish, a failed publish, the end of the
\* stream.
C6_IntervalNonDecreasing ==
  [][\A t \in Turns :
       HasSession(t) => /\ HasSession(t)'
                        /\ GetAttr(t, "interval")' >= GetAttr(t, "interval")]_vars

C6_Witness ==
  \E t \in Turns :
    /\ ended[t]
    /\ GetAttr(t, "interval") = 4
    /\ FailedPartials(t) >= 1
    /\ GetAttr(t, "update_count") > 21

\* C7: the interval changes only in a step that makes a successful partial
\* publish, and then it is doubled, once, exactly when the incremented
\* update_count exceeds ten times the interval before the step; from the
\* base interval 1 the doublings fall at update counts 11, 21, 41, 81.
C7_AdaptiveBackoff ==
  [][\A t \in Turns :
       (HasSession(t) /\ HasSession(t)') =>
         LET iv  == GetAttr(t, "interval")
             cnt == GetAttr(t, "update_count")
             published == /\ nPartial'[t] = nPartial[t] + 1
                          /\ lastCall'[t].kind = "partial"
                          /\ lastCall'[t].ok
         IN
         /\ GetAttr(t, "interval")' # iv =>
              /\ published
              /\ GetAttr(t, "update_count")' = cnt + 1
              /\ cnt + 1 > 10 * iv
              /\ GetAttr(t, "interval")' = 2 * iv
              /\ <<iv, cnt + 1>> \in {<<1, 11>>, <<2, 21>>, <<4, 41>>, <<8, 81>>}
         /\ (published /\ cnt + 1 > 10 * iv) => GetAttr(t, "interval")' = 2 * iv
         /\ GetAttr(t, "update_count")' # cnt => published]_vars

C7_Witness ==
  \E t \in Turns :
    /\ HasSession(t)
    /\ GetAttr(t, "interval") = 8
    /\ GetAttr(t, "update_count") = 41

\* C9: a chat_update that raises inside on_llm_new_token leaves the stream
\* open; the accumulated text always holds every token delivered; every
\* chat_update issued afterwards carries the whole text accumulated so far;
\* and the end of the stream still makes the terminal publish.
C9_FailedPublishDoesNotAbort ==
  [][\A t \in Turns :
       /\ (nPartial'[t] = nPartial[t] + 1 /\ ~lastCall'[t].ok) =>
            pc'[t] = "streaming"
       /\ HasSession(t)' => GetAttr(t, "message")' = Concat(arrived'[t])
       /\ nPartial'[t] = nPartial[t] + 1 =>
            lastCall'[t].text = Concat(arrived'[t]) \o Marker
       /\ (ended'[t] /\ ~ended[t]) =>
            /\ nFinal'[t] = nFinal[t] + 1
            /\ lastCall'[t].text = Concat(arrived'[t])]_vars

C9_Witness ==
  \E t \in Turns :
    /\ ended[t]
    /\ FailedPartials(t) >= 1
    /\ GetAttr(t, "update_count") >= 1
    /\ okPartialAt[t] >= 0
    /\ shown[t] = Concat(arrived[t])
    /\ Len(arrived[t]) = 3

\* C10: a delivery carrying x-slack-retry-num is answered 200 and changes
\* nothing but the record of the delivery: no placeholder, no edit, no
\* generation, no history read or append; a turn starts only with a
\* delivery that does not carry the header.
C10_RetryHasNoSideEffect ==
  [][/\ Len(deliveries') = Len(deliveries) + 1 =>
          LET d == deliveries'[Len(deliveries')] IN
          IF d.retry
            THEN /\ d.resp = "200"
                 /\ UNCHANGED <<now, mode, events, query, id_ts, pc, inst, created, arrived, ended,
                                shown, lastCall, nPartial, nFinal,
                                okPartialAt, nOkPartial, lastTokenSent, loaded,
                                ai_message, history>>
            ELSE /\ pc[d.turn] = "idle"
                 /\ pc'[d.turn] = "posted"
     /\ \A t \in Turns :
          (pc[t] = "idle" /\ pc'[t] # "idle") =>
            /\ Len(deliveries') = Len(deliveries) + 1
            /\ ~deliveries'[Len(deliveries')].retry
            /\ deliveries'[Len(deliveries')].turn = t]_vars

C10_Witness ==
  /\ Len(deliveries) = 2
  /\ ~deliveries[1].retry
  /\ deliveries[2].retry
  /\ pc[1] = "streaming"
  /\ nPartial[1] >= 1

\* the entries a turn has appended to the transcript so far
Appended(t) ==
  IF pc[t] = "done" THEN 2 ELSE IF pc[t] = "userAdded" THEN 1 ELSE 0

\* C11: the key of a turn is the event's thread_ts when it has one and its
\* own ts otherwise; the history read at invoke and both appends use that
\* key and no other; two events of one thread get the same key, and so
\* does a reply to a message and the mention in that message.
C11_ConversationKey ==
  [][\A t \in Turns :
       LET key == IF "thread_ts" \in DOMAIN events[t]
                    THEN events[t].thread_ts ELSE events[t].ts
       IN
       /\ pc'[t] # "idle" => id_ts'[t] = key
       /\ (pc[t] = "built" /\ pc'[t] = "streaming") =>
            loaded'[t].chat_history = history[key]
       /\ (pc[t] \in {"invoked", "userAdded"} /\ pc'[t] # pc[t]) =>
            /\ Len(history'[key]) = Len(history[key]) + 1
            /\ \A k \in Keys \ {key} : history'[k] = history[k]
       /\ \A u \in Turns :
            (/\ pc'[t] # "idle" /\ pc'[u] # "idle"
             /\ "thread_ts" \in DOMAIN events[t]
             /\ \/ /\ "thread_ts" \in DOMAIN events[u]
                   /\ events[u].thread_ts = events[t].thread_ts
                \/ /\ "thread_ts" \notin DOMAIN events[u]
                   /\ events[u].ts = events[t].thread_ts)
            => id_ts'[t] = id_ts'[u]]_vars

C11_Witness ==
  /\ pc[1] = "done"
  /\ pc[2] = "done"
  /\ "thread_ts" \in DOMAIN events[2]
  /\ events[2].thread_ts = "0.5"
  /\ events[2].ts = "2.0"
  /\ "thread_ts" \in DOMAIN events[1]
  /\ Len(loaded[2].chat_history) = 2
  /\ Len(history["0.5"]) = 4
  /\ history["2.0"] = << >>

\* C12: a turn that has completed has appended exactly one pair to the
\* transcript of its key, the user message and then the generated answer,
\* and a turn that has not yet returned from generation has appended
\* nothing.
C12_CompletedTurnAppendsPair ==
  \A t \in Turns :
    LET h == history[id_ts[t]] IN
    /\ pc[t] = "done" =>
         /\ ended[t] /\ nFinal[t] = 1
         /\ Len(h) = 2
         /\ h[1] = <<"human", query[t]>>
         /\ h[2] = <<"ai", Concat(arrived[t])>>
    /\ pc[t] \in {"posted", "built", "streaming", "ended", "invoked", "failed"} =>
         history = [k \in Keys |-> << >>]

\* C13: a turn that has failed after the placeholder was posted shows the
\* placeholder or a partial publish, marker included, has made no terminal
\* publish and has appended nothing to the transcript.
C13_FailedTurnKeepsStreamedState ==
  \A t \in Turns :
    pc[t] = "failed" =>
      /\ EndsWith(shown[t], Marker)
      /\ lastCall[t].kind # "final"
      /\ history = [k \in Keys |-> << >>]

\* the text without its mentions: every "<@", up to the first ">" that
\* follows it on the line, is left out
RECURSIVE StripMentionsFrom(_, _)
StripMentionsFrom(s, i) ==
  IF i > Len(s) THEN << >>
  ELSE IF MatchEnds(s, i) # {}
    THEN StripMentionsFrom(s, (CHOOSE j \in MatchEnds(s, i) :
                                 \A k \in MatchEnds(s, i) : j <= k) + 1)
    ELSE <<s[i]>> \o StripMentionsFrom(s, i + 1)

\* C15: the query passed to the chain and appended as the user message is
\* the event text with every mention <@...> removed and all other
\* characters kept in order.
C15_QueryIsTextWithoutMentions ==
  \A t \in Turns :
    /\ pc[t] # "idle" => query[t] = StripMentionsFrom(events[t].text, 1)
    /\ pc[t] \in {"streaming", "ended", "invoked", "userAdded", "done"} =>
         loaded[t].input = StripMentionsFrom(events[t].text, 1)
    /\ pc[t] \in {"userAdded", "done"} =>
         history[id_ts[t]][1] = <<"human", StripMentionsFrom(events[t].text, 1)>>

\* C14: a stream that ends without any token makes exactly one publish,
\* the terminal one, with the empty text; no partial publish is made and a
\* successful terminal publish replaces the placeholder by the empty text.
C14_EmptyStreamPublishesOnce ==
  \A t \in Turns :
    (ended[t] /\ arrived[t] = << >>) =>
      /\ nPartial[t] = 0
      /\ nFinal[t] = 1
      /\ lastCall[t].kind = "final"
      /\ lastCall[t].text = << >>
      /\ lastCall[t].ok => shown[t] = << >>

C14_Witness ==
  /\ ended[1]
  /\ arrived[1] = << >>
  /\ lastCall[1].ok
  /\ shown[1] = << >>
  /\ pc[1] = "done"

\* C16: a session starts with empty text, base interval and count 0, and an
\* on_token or on_stream_end of one session leaves the text, last publish
\* time, interval and count of every other session as they were.
C16_SessionStateIsPerSession ==
  [][\A t \in Turns :
       /\ (pc[t] = "posted" /\ pc'[t] = "built") =>
            /\ GetAttr(t, "message")' = << >>
            /\ GetAttr(t, "interval")' = CHAT_UPDATE_INTERVAL_SEC
            /\ GetAttr(t, "update_count")' = 0
       /\ (arrived'[t] # arrived[t] \/ ended'[t] # ended[t]) =>
            \A u \in Turns \ {t} :
              /\ GetAttr(u, "message")' = GetAttr(u, "message")
              /\ GetAttr(u, "last_send_time")' = GetAttr(u, "last_send_time")
              /\ HasSession(u) =>
                   /\ GetAttr(u, "interval")' = GetAttr(u, "interval")
                   /\ GetAttr(u, "update_count")' = GetAttr(u, "update_count")]_vars

C16_Witness ==
  /\ pc[1] = "ended"
  /\ pc[2] = "streaming"
  /\ GetAttr(1, "message") = <<"a", "a">>
  /\ GetAttr(2, "message") = <<"b", "c">>
  /\ GetAttr(1, "update_count") = 1
  /\ GetAttr(2, "update_count") = 1
  /\ GetAttr(1, "last_send_time") # GetAttr(2, "last_send_time")

\* C17: no entry of the transcript is lost when turns on one key overlap:
\* the transcript of a key holds as many entries as the turns on that key
\* have appended, and a completed turn's user entry is in it before that
\* turn's assistant entry.
C17_NoTranscriptEntryLost ==
  /\ \A k \in Keys :
       LET on == {t \in Turns : id_ts[t] = k}
           n1 == IF 1 \in on THEN Appended(1) ELSE 0
           n2 == IF 2 \in on THEN Appended(2) ELSE 0
       IN Len(history[k]) = n1 + n2
  /\ \A t \in Turns :
       pc[t] = "done" =>
         \E i, j \in 1..Len(history[id_ts[t]]) :
           /\ i < j
           /\ history[id_ts[t]][i] = <<"human", query[t]>>
           /\ history[id_ts[t]][j] = <<"ai", ai_message[t]>>

C17_Witness ==
  /\ pc[1] = "done"
  /\ pc[2] = "done"
  /\ id_ts[1] = id_ts[2]
  /\ loaded[1].chat_history = << >>
  /\ loaded[2].chat_history = << >>
  /\ history[id_ts[1]][1][1] = "human"
  /\ history[id_ts[1]][2][1] = "human"
  /\ ai_message[1] # ai_message[2]

\* C18: after every on_token the count is at most ten times the interval,
\* the interval is the base interval times a power of two, and the count
\* is the number of partial publishes that succeeded.
C18_BackoffInvariant ==
  \A t \in Turns :
    HasSession(t) =>
      /\ GetAttr(t, "update_count") <= 10 * GetAttr(t, "interval")
      /\ \E k \in 0..MaxLongTokens :
           GetAttr(t, "interval") = CHAT_UPDATE_INTERVAL_SEC * 2^k
      /\ GetAttr(t, "update_count") = nOkPartial[t]

C18_Witness ==
  /\ HasSession(1)
  /\ GetAttr(1, "interval") = 4
  /\ GetAttr(1, "update_count") = 22
  /\ nPartial[1] = 23

IsPrefix(a, b) == Len(a) <= Len(b) /\ SubSeq(b, 1, Len(a)) = a

\* the text of a publish without the in-progress marker
CallText(c) ==
  IF c.kind = "partial" /\ EndsWith(c.text, Marker)
    THEN SubSeq(c.text, 1, Len(c.text) - Len(Marker))
    ELSE c.text

\* C19: the text of a publish, marker removed, extends the text of the
\* publish before it, and is a prefix of the accumulated text, which is a
\* prefix of the final answer.
C19_DisplayedTextOnlyGrows ==
  [][\A t \in Turns :
       (nPartial'[t] + nFinal'[t] # nPartial[t] + nFinal[t]) =>
         /\ IsPrefix(CallText(lastCall[t]), CallText(lastCall'[t]))
         /\ IsPrefix(CallText(lastCall'[t]), Concat(arrived'[t]))
         /\ lastCall'[t].kind = "partial" => EndsWith(lastCall'[t].text, Marker)]_vars

C19_Witness ==
  /\ ended[1]
  /\ nPartial[1] = 3
  /\ nOkPartial[1] = 2
  /\ lastCall[1].ok
  /\ Len(lastCall[1].text) = 5

\* C20: a partial publish that fails leaves the token appended and the last
\* publish time, the count and the interval as they were, and the on_token
\* that follows a failed partial publish attempts the publish again.
C20_FailedPublishNotCounted ==
  [][\A t \in Turns :
       /\ (nPartial'[t] = nPartial[t] + 1 /\ ~lastCall'[t].ok) =>
            /\ GetAttr(t, "message")' =
                 GetAttr(t, "message") \o arrived'[t][Len(arrived'[t])]
            /\ GetAttr(t, "last_send_time")' = GetAttr(t, "last_send_time")
            /\ GetAttr(t, "update_count")' = GetAttr(t, "update_count")
            /\ GetAttr(t, "interval")' = GetAttr(t, "interval")
            /\ shown'[t] = shown[t]
       /\ (/\ lastCall[t].kind = "partial" /\ ~lastCall[t].ok
           /\ Len(arrived'[t]) = Len(arrived[t]) + 1) =>
            nPartial'[t] = nPartial[t] + 1]_vars

C20_Witness ==
  /\ pc[1] = "streaming"
  /\ nPartial[1] = 2
  /\ nOkPartial[1] = 1
  /\ Len(arrived[1]) = 2
  /\ lastCall[1].ok
  /\ GetAttr(1, "update_count") = 1
  /\ okPartialAt[1] = lastCall[1].at

====
